---- MODULE Spec2Model ----
(***************************************************************************)
(* A model of src/game.py: class CheckersGame.                             *)
(*                                                                         *)
(* The board is the 8x8 integer grid of the source (0 empty, 1 black       *)
(* piece, 2 black king, 3 white piece, 4 white king), indexed by           *)
(* <<row, col>>; current_player is 1 (black) or -1 (white).                *)
(* Python lists are sequences, Python tuples are tuples, Optional[int] is  *)
(* a sequence of length 0 (None) or 1.                                     *)
(*                                                                         *)
(* board and current_player are the fields of one CheckersGame instance,   *)
(* "a"; other holds the fields of a second instance, "b", and the number   *)
(* of make_move calls made on it.                                          *)
(***************************************************************************)
EXTENDS Integers, Sequences, FiniteSets, TLC

VARIABLES board, current_player, last_call, ret, ply, other

vars == <<board, current_player, last_call, ret, ply, other>>

(***************************************************************************)
(* Bounds of the model.                                                    *)
(***************************************************************************)
\* make_move calls explored from a new game
MaxPly == 4
\* make_move calls explored from a new game when looking for a double jump
MaxOpeningPly == 5
\* make_move calls explored from a set-up position
MaxPosPly == 1
\* pieces on a set-up position
MaxPieces == 3
\* make_move calls explored on two new games together
MaxTwoPly == 3
\* make_move calls with a caller-built move explored from a set-up position
MaxAnyPly == 1
\* pieces on a set-up position that receives caller-built moves
MaxAnyPieces == 2

(***************************************************************************)
(* Program constants.                                                      *)
(***************************************************************************)
N == 8

Rows == 0 .. (N - 1)
Pos == Rows \X Rows

None == <<>>
Some(x) == <<x>>

Abs(x) == IF x < 0 THEN 0 - x ELSE x

RECURSIVE Flatten(_)
\* list.extend of every list of ss, in order
Flatten(ss) == IF ss = <<>> THEN <<>> ELSE Head(ss) \o Flatten(Tail(ss))

(***************************************************************************)
(* __init__ / _initialize_board                                            *)
(***************************************************************************)
\* the white rows one short
_initialize_board_mut ==
    [p \in Pos |->
        IF p[1] \in 0 .. 2 /\ (p[1] + p[2]) % 2 = 1 THEN 1
        ELSE IF p[1] \in 5 .. 6 /\ (p[1] + p[2]) % 2 = 1 THEN 3
        ELSE 0]

_initialize_board ==
    [p \in Pos |->
        IF p[1] \in 0 .. 2 /\ (p[1] + p[2]) % 2 = 1 THEN 1
        ELSE IF p[1] \in 5 .. 7 /\ (p[1] + p[2]) % 2 = 1 THEN 3
        ELSE 0]

(***************************************************************************)
(* Ownership and bounds helpers                                            *)
(***************************************************************************)
_is_current_players_piece(cp, piece) ==
    IF cp = 1 THEN piece \in {1, 2} ELSE piece \in {3, 4}

\* any piece counts as an opponent
_is_opponent_piece_mut(cp, piece) == piece # 0

_is_opponent_piece(cp, piece) ==
    IF cp = 1 THEN piece \in {3, 4} ELSE piece \in {1, 2}

\* the lower bounds left out
_is_valid_position_mut(row, col) == row < N /\ col < N

_is_valid_position(row, col) ==
    0 <= row /\ row < N /\ 0 <= col /\ col < N

(***************************************************************************)
(* _get_normal_moves                                                       *)
(***************************************************************************)
\* black men stepping straight down the column
NormalDirections_mut(piece) ==
    (IF piece \in {1, 2} THEN << <<1, 0>>, <<1, 1>> >> ELSE <<>>)
    \o (IF piece \in {3, 4} THEN << <<-1, -1>>, <<-1, 1>> >> ELSE <<>>)

\* kings given the directions of men only
NormalDirections_mut2(piece) ==
    (IF piece \in {1, 2} THEN << <<1, -1>>, <<1, 1>> >> ELSE <<>>)
    \o (IF piece \in {3, 4} THEN << <<-1, -1>>, <<-1, 1>> >> ELSE <<>>)

NormalDirections(piece) ==
    (IF piece \in {1, 2} THEN << <<1, -1>>, <<1, 1>> >> ELSE <<>>)
    \o (IF piece \in {3, 4} THEN << <<-1, -1>>, <<-1, 1>> >> ELSE <<>>)
    \o (IF piece \in {2, 4}
        THEN (IF piece = 2 THEN << <<-1, -1>>, <<-1, 1>> >>
                           ELSE << <<1, -1>>, <<1, 1>> >>)
        ELSE <<>>)

\* the destination is not tested for being empty
_get_normal_moves_mut(b, row, col) ==
    LET piece == b[<<row, col>>]
        directions == NormalDirections(piece)
        cand == [i \in 1 .. Len(directions) |->
                    <<row + directions[i][1], col + directions[i][2]>>]
        OnBoard(p) == _is_valid_position(p[1], p[2])
    IN  SelectSeq(cand, OnBoard)

_get_normal_moves(b, row, col) ==
    LET piece == b[<<row, col>>]
        directions == NormalDirections(piece)
        cand == [i \in 1 .. Len(directions) |->
                    <<row + directions[i][1], col + directions[i][2]>>]
        Free(p) == _is_valid_position(p[1], p[2]) /\ b[p] = 0
    IN  SelectSeq(cand, Free)

(***************************************************************************)
(* _find_capture_sequences / _get_capture_moves                            *)
(***************************************************************************)
CaptureDirections(piece) ==
    IF piece \in {2, 4} THEN << <<2, -2>>, <<2, 2>>, <<-2, -2>>, <<-2, 2>> >>
    ELSE IF piece = 1 THEN << <<2, -2>>, <<2, 2>> >>
    ELSE IF piece = 3 THEN << <<-2, -2>>, <<-2, 2>> >>
    ELSE <<>>

\* the condition of lines 128-133, evaluated left to right
JumpAdmissible(b, cp, row, col, d, visited) ==
    LET new_row == row + d[1]
        new_col == col + d[2]
        jumped_row == row + (d[1] \div 2)
        jumped_col == col + (d[2] \div 2)
    IN  /\ <<new_row, new_col>> \notin visited
        /\ _is_valid_position(new_row, new_col)
        /\ b[<<new_row, new_col>>] = 0
        /\ _is_opponent_piece(cp, b[<<jumped_row, jumped_col>>])

RECURSIVE _find_capture_sequences(_, _, _, _, _, _)
\* the sequences appended to all_sequences by one call, in order
_find_capture_sequences(b, cp, row, col, current_sequence, visited) ==
    LET piece == b[<<row, col>>]
        directions == CaptureDirections(piece)
        Branch(d) ==
            IF JumpAdmissible(b, cp, row, col, d, visited)
            THEN _find_capture_sequences(
                     b, cp, row + d[1], col + d[2],
                     Append(current_sequence, <<row + d[1], col + d[2]>>),
                     visited \cup {<<row + d[1], col + d[2]>>})
            ELSE <<>>
        found_capture ==
            \E i \in 1 .. Len(directions) :
                JumpAdmissible(b, cp, row, col, directions[i], visited)
    IN  Flatten([i \in 1 .. Len(directions) |-> Branch(directions[i])])
        \o (IF ~found_capture /\ current_sequence # <<>>
            THEN <<current_sequence>> ELSE <<>>)

_get_capture_moves(b, cp, row, col) ==
    _find_capture_sequences(b, cp, row, col, <<>>, {})

(***************************************************************************)
(* get_valid_moves: a list of <<start_pos, destinations>>                  *)
(***************************************************************************)
\* the squares in the order of the two nested range(8) loops
ScanOrder == [k \in 1 .. (N * N) |-> <<(k - 1) \div N, (k - 1) % N>>]

PieceCaptureMoves(b, cp, p) ==
    IF _is_current_players_piece(cp, b[p])
    THEN LET piece_captures == _get_capture_moves(b, cp, p[1], p[2])
         IN  [i \in 1 .. Len(piece_captures) |-> <<p, piece_captures[i]>>]
    ELSE <<>>

PieceNormalMoves(b, cp, p) ==
    IF /\ _is_current_players_piece(cp, b[p])
       /\ _get_capture_moves(b, cp, p[1], p[2]) = <<>>
    THEN LET piece_moves == _get_normal_moves(b, p[1], p[2])
         IN  [i \in 1 .. Len(piece_moves) |-> <<p, <<piece_moves[i]>> >>]
    ELSE <<>>

\* both lists returned together
SelectResult_mut(capture_moves, moves) == capture_moves \o moves

SelectResult(capture_moves, moves) ==
    IF capture_moves # <<>> THEN capture_moves ELSE moves

get_valid_moves(b, cp) ==
    LET capture_moves ==
            Flatten([k \in 1 .. (N * N) |-> PieceCaptureMoves(b, cp, ScanOrder[k])])
        moves ==
            Flatten([k \in 1 .. (N * N) |-> PieceNormalMoves(b, cp, ScanOrder[k])])
    IN  SelectResult(capture_moves, moves)

(***************************************************************************)
(* The subscripts self.board[r][c] evaluated by one get_valid_moves call   *)
(***************************************************************************)
\* the value a subscript yields: numpy counts a negative index from the end
\* of the axis; an index past the end raises, and nothing is read after it
Peek(b, p) ==
    IF p[1] \in (0 - N) .. (N - 1) /\ p[2] \in (0 - N) .. (N - 1)
    THEN b[<<p[1] % N, p[2] % N>>]
    ELSE 0

\* lines 128-133 with the values the subscripts yield
JumpTaken(b, cp, row, col, d, visited) ==
    /\ <<row + d[1], col + d[2]>> \notin visited
    /\ _is_valid_position(row + d[1], col + d[2])
    /\ Peek(b, <<row + d[1], col + d[2]>>) = 0
    /\ _is_opponent_piece(cp, Peek(b, <<row + (d[1] \div 2), col + (d[2] \div 2)>>))

\* the subscripts of lines 131 and 133, each reached only when the
\* conjuncts to its left are true
JumpReads(b, cp, row, col, d, visited) ==
    IF /\ <<row + d[1], col + d[2]>> \notin visited
       /\ _is_valid_position(row + d[1], col + d[2])
    THEN {<<row + d[1], col + d[2]>>}
         \cup (IF Peek(b, <<row + d[1], col + d[2]>>) = 0
               THEN {<<row + (d[1] \div 2), col + (d[2] \div 2)>>}
               ELSE {})
    ELSE {}

RECURSIVE SearchReads(_, _, _, _, _)
\* line 111 and, for each direction, lines 131, 133 and the nested call
SearchReads(b, cp, row, col, visited) ==
    LET directions == CaptureDirections(Peek(b, <<row, col>>))
    IN  {<<row, col>>}
        \cup UNION {JumpReads(b, cp, row, col, directions[i], visited)
                    \cup (IF JumpTaken(b, cp, row, col, directions[i], visited)
                          THEN SearchReads(b, cp, row + directions[i][1],
                                           col + directions[i][2],
                                           visited \cup {<<row + directions[i][1],
                                                           col + directions[i][2]>>})
                          ELSE {}) :
                    i \in 1 .. Len(directions)}

\* line 84 and the subscript of line 97, reached only for a valid position
NormalReads(b, row, col) ==
    LET directions == NormalDirections(Peek(b, <<row, col>>))
    IN  {<<row, col>>}
        \cup {q \in {<<row + directions[i][1], col + directions[i][2]>> :
                         i \in 1 .. Len(directions)} :
                 _is_valid_position(q[1], q[2])}

\* line 60 for every square of the scan, the search for every piece of the
\* side to move, and _get_normal_moves where the search found nothing
GridReads(b, cp) ==
    UNION {{ScanOrder[k]}
           \cup (IF _is_current_players_piece(cp, b[ScanOrder[k]])
                 THEN SearchReads(b, cp, ScanOrder[k][1], ScanOrder[k][2], {})
                      \cup (IF \E i \in 1 .. Len(CaptureDirections(b[ScanOrder[k]])) :
                                  JumpTaken(b, cp, ScanOrder[k][1], ScanOrder[k][2],
                                            CaptureDirections(b[ScanOrder[k]])[i], {})
                            THEN {}
                            ELSE NormalReads(b, ScanOrder[k][1], ScanOrder[k][2]))
                 ELSE {}) :
           k \in 1 .. (N * N)}

(***************************************************************************)
(* make_move                                                               *)
(***************************************************************************)
\* the far rows swapped
Promote_mut(piece, new_row) ==
    IF piece = 1 /\ new_row = 0 THEN 2
    ELSE IF piece = 3 /\ new_row = 7 THEN 4
    ELSE piece

\* no piece is ever crowned
Promote_mut3(piece, new_row) == piece

\* lines 173-176
Promote(piece, new_row) ==
    IF piece = 1 /\ new_row = 7 THEN 2
    ELSE IF piece = 3 /\ new_row = 0 THEN 4
    ELSE piece

\* a one-square step taken for a capture
IsCapture_mut(row, new_row) == Abs(new_row - row) = 1

\* line 165
IsCapture(row, new_row) == Abs(new_row - row) = 2

RECURSIVE MoveLoop(_, _, _, _, _, _)
\* the for loop of lines 162-178 from index i (1-based) on
MoveLoop(b, row, col, piece, moves, i) ==
    IF i > Len(moves) THEN b
    ELSE LET new_row == moves[i][1]
             new_col == moves[i][2]
             b1 == IF IsCapture(row, new_row)
                   THEN [b EXCEPT ![<<(new_row + row) \div 2,
                                      (new_col + col) \div 2>>] = 0]
                   ELSE b
             b2 == IF i = Len(moves)
                   THEN [b1 EXCEPT ![<<new_row, new_col>>] = Promote(piece, new_row)]
                   ELSE b1
         IN  MoveLoop(b2, new_row, new_col, piece, moves, i + 1)

\* the board after make_move(start_pos, moves)
make_move_board(b, start_pos, moves) ==
    MoveLoop([b EXCEPT ![start_pos] = 0], start_pos[1], start_pos[2],
             b[start_pos], moves, 1)

\* the turn is not passed
SwitchPlayers_mut(cp) == cp

\* line 180
SwitchPlayers(cp) == cp * (0 - 1)

(***************************************************************************)
(* is_game_over, get_winner                                                *)
(***************************************************************************)
is_game_over(b, cp) == Len(get_valid_moves(b, cp)) = 0

\* the side to move reported as the winner
get_winner_mut(b, cp) ==
    IF ~is_game_over(b, cp) THEN None ELSE Some(cp)

\* the game-over test left out
get_winner_mut2(b, cp) == Some(0 - cp)

get_winner(b, cp) ==
    IF ~is_game_over(b, cp) THEN None ELSE Some(0 - cp)

(***************************************************************************)
(* Calls.  last_call is the latest call on the engine with its arguments,  *)
(* ret what it returned or raised, ply the number of make_move calls.      *)
(***************************************************************************)
Call(op, args) == [op |-> op, args |-> args]
Return(v) == [kind |-> "return", val |-> v]
Raise(e) == [kind |-> "raise", val |-> e]

\* one array bound to the board field of every instance
ArrayOf_mut(instance) == "shared"

\* The array object an instance's board field is bound to: __init__ (line
\* 33) calls np.zeros for each instance, so each has an array of its own.
ArrayOf(instance) == instance

\* the grid `reader` sees after `writer` stored `written` into its array
SeenFrom(writer, reader, written, grid) ==
    IF ArrayOf(writer) = ArrayOf(reader) THEN written ELSE grid

\* make_move(start_pos, moves), lines 155-180: no validation, no exception
make_move(start_pos, moves) ==
    /\ board' = make_move_board(board, start_pos, moves)
    /\ current_player' = SwitchPlayers(current_player)
    /\ last_call' = Call("make_move", <<start_pos, moves>>)
    /\ ret' = Return(None)
    /\ ply' = ply + 1
    /\ other' = [other EXCEPT !.board = SeenFrom("a", "b", board', @)]

\* the driving loop: a move chosen among those get_valid_moves offers
LegalMove ==
    LET valid == get_valid_moves(board, current_player)
    IN  \E i \in 1 .. Len(valid) : make_move(valid[i][1], valid[i][2])

\* a search that takes the first jumped piece off the board and leaves it off
AfterSearch_mut(b, cp) ==
    LET valid == get_valid_moves(b, cp)
    IN  IF valid # <<>> /\ Abs(valid[1][2][1][1] - valid[1][1][1]) = 2
        THEN [b EXCEPT ![<<(valid[1][1][1] + valid[1][2][1][1]) \div 2,
                          (valid[1][1][2] + valid[1][2][1][2]) \div 2>>] = 0]
        ELSE b

\* self.board after get_valid_moves has run: lines 53-144 only read the
\* array, and every square added to the local set visited (line 136) is
\* removed again (line 141)
AfterSearch(b, cp) == b

GetValidMoves ==
    /\ last_call' = Call("get_valid_moves", <<>>)
    /\ ret' = Return(get_valid_moves(board, current_player))
    /\ board' = AfterSearch(board, current_player)
    /\ UNCHANGED <<current_player, ply, other>>

IsGameOver ==
    /\ last_call' = Call("is_game_over", <<>>)
    /\ ret' = Return(is_game_over(board, current_player))
    /\ board' = AfterSearch(board, current_player)
    /\ UNCHANGED <<current_player, ply, other>>

GetWinner ==
    /\ last_call' = Call("get_winner", <<>>)
    /\ ret' = Return(get_winner(board, current_player))
    /\ board' = AfterSearch(board, current_player)
    /\ UNCHANGED <<current_player, ply, other>>

\* get_state, line 191: numpy's ndarray has no attribute deepcopy, so the
\* attribute lookup raises AttributeError before anything is copied
get_state_result(b) == Raise("AttributeError")

GetState ==
    /\ last_call' = Call("get_state", <<>>)
    /\ ret' = get_state_result(board)
    /\ UNCHANGED <<board, current_player, ply, other>>

(***************************************************************************)
(* Spec: a game played from CheckersGame() with moves from get_valid_moves *)
(***************************************************************************)
\* the fields of a second instance right after CheckersGame()
NewOther == [board |-> _initialize_board, current_player |-> 1, ply |-> 0]

Init ==
    /\ board = _initialize_board
    /\ current_player = 1
    /\ last_call = Call("__init__", <<>>)
    /\ ret = Return(None)
    /\ ply = 0
    /\ other = NewOther

PlayMove == ply < MaxPly /\ LegalMove

Next == PlayMove \/ GetValidMoves \/ IsGameOver \/ GetWinner \/ GetState

Spec == Init /\ [][Next]_vars

(***************************************************************************)
(* SpecOpening: the same game, followed for MaxOpeningPly moves            *)
(***************************************************************************)
PlayOpeningMove == ply < MaxOpeningPly /\ LegalMove

NextOpening ==
    PlayOpeningMove \/ GetValidMoves \/ IsGameOver \/ GetWinner \/ GetState

SpecOpening == Init /\ [][NextOpening]_vars

(***************************************************************************)
(* SpecPos: play continued from a position of a game in progress.          *)
(* The positions are those with at most MaxPieces pieces on the squares    *)
(* InitSquares, no man standing on its own king row, either side to move.  *)
(***************************************************************************)
InitSquares ==
    {<<0, 1>>, <<1, 0>>, <<3, 4>>, <<4, 3>>, <<5, 4>>, <<5, 6>>, <<6, 5>>}

Position(S, f) == [p \in Pos |-> IF p \in S THEN f[p] ELSE 0]

NoManOnKingRow(b) ==
    \A p \in Pos : ~(b[p] = 1 /\ p[1] = 7) /\ ~(b[p] = 3 /\ p[1] = 0)

InitPosition(max) ==
    /\ \E S \in SUBSET InitSquares :
          /\ Cardinality(S) <= max
          /\ \E f \in [S -> 1 .. 4] :
                /\ board = Position(S, f)
                /\ NoManOnKingRow(Position(S, f))
    /\ current_player \in {1, 0 - 1}
    /\ last_call = Call("__init__", <<>>)
    /\ ret = Return(None)
    /\ ply = 0
    /\ other = NewOther

InitPos == InitPosition(MaxPieces)

PlayPosMove == ply < MaxPosPly /\ LegalMove

NextPos == PlayPosMove \/ GetValidMoves \/ IsGameOver \/ GetWinner \/ GetState

SpecPos == InitPos /\ [][NextPos]_vars

(***************************************************************************)
(* SpecQuery: the queries called on each of these positions                *)
(***************************************************************************)
NextQuery == GetValidMoves \/ IsGameOver \/ GetWinner \/ GetState

SpecQuery == InitPos /\ [][NextQuery]_vars

(***************************************************************************)
(* SpecAny: make_move called with moves the caller builds itself, on a     *)
(* position with at most MaxAnyPieces pieces.  A caller-built move takes   *)
(* any piece on the board through one diagonal step of one or two squares, *)
(* or through two jumps of two squares, all on the board.                  *)
(***************************************************************************)
Diagonals(n) == {<<n, n>>, <<n, 0 - n>>, <<0 - n, n>>, <<0 - n, 0 - n>>}

Shift(p, d) == <<p[1] + d[1], p[2] + d[2]>>

CallerChains(start) ==
    {<<Shift(start, d)>> : d \in {e \in Diagonals(1) \cup Diagonals(2) :
                                     Shift(start, e) \in Pos}}
    \cup {<<Shift(start, d[1]), Shift(Shift(start, d[1]), d[2])>> :
            d \in {e \in Diagonals(2) \X Diagonals(2) :
                      /\ Shift(start, e[1]) \in Pos
                      /\ Shift(Shift(start, e[1]), e[2]) \in Pos}}

InitAny == InitPosition(MaxAnyPieces)

CallerMove ==
    /\ ply < MaxAnyPly
    /\ \E start \in {p \in Pos : board[p] # 0} :
          \E moves \in CallerChains(start) : make_move(start, moves)

NextAny == CallerMove \/ GetValidMoves \/ IsGameOver \/ GetWinner \/ GetState

SpecAny == InitAny /\ [][NextAny]_vars

(***************************************************************************)
(* SpecTwo: two games created by CheckersGame(), "a" and "b", each played  *)
(* with moves from its own get_valid_moves, the calls interleaved freely.  *)
(***************************************************************************)
\* make_move(start_pos, moves) called on instance "b"
make_move_other(start_pos, moves) ==
    LET written == make_move_board(other.board, start_pos, moves)
    IN  /\ other' = [board |-> written,
                     current_player |-> SwitchPlayers(other.current_player),
                     ply |-> other.ply + 1]
        /\ board' = SeenFrom("b", "a", written, board)
        /\ last_call' = Call("b.make_move", <<start_pos, moves>>)
        /\ ret' = Return(None)
        /\ UNCHANGED <<current_player, ply>>

MoveA == ply + other.ply < MaxTwoPly /\ LegalMove

MoveB ==
    /\ ply + other.ply < MaxTwoPly
    /\ LET valid == get_valid_moves(other.board, other.current_player)
       IN  \E i \in 1 .. Len(valid) : make_move_other(valid[i][1], valid[i][2])

GetValidMovesB ==
    /\ last_call' = Call("b.get_valid_moves", <<>>)
    /\ ret' = Return(get_valid_moves(other.board, other.current_player))
    /\ UNCHANGED <<board, current_player, ply, other>>

NextTwo == MoveA \/ MoveB \/ GetValidMoves \/ GetValidMovesB

SpecTwo == Init /\ [][NextTwo]_vars

(***************************************************************************)
(* Vocabulary of the rules, used to state the properties                   *)
(***************************************************************************)
SideOf(piece) == IF piece \in {1, 2} THEN 1 ELSE IF piece \in {3, 4} THEN 0 - 1 ELSE 0
IsKing(piece) == piece \in {2, 4}
IsMan(piece) == piece \in {1, 3}
\* row directions open to a piece of this rank
RowDirs(piece) ==
    IF IsKing(piece) THEN {1, 0 - 1}
    ELSE IF piece = 1 THEN {1} ELSE IF piece = 3 THEN {0 - 1} ELSE {}
Range(s) == {s[i] : i \in 1 .. Len(s)}
Last(s) == s[Len(s)]
PiecesOf(b, side) == {p \in Pos : SideOf(b[p]) = side}
NumPieces(b) == Cardinality({p \in Pos : b[p] # 0})
\* the squares a move passes through, the start first
Path(m) == <<m[1]>> \o m[2]
IsJumpStep(from, to) == Abs(to[1] - from[1]) = 2
NumJumps(m) == Cardinality({i \in 1 .. Len(m[2]) : IsJumpStep(Path(m)[i], Path(m)[i + 1])})
IsCaptureMove(m) == \A i \in 1 .. Len(m[2]) :
                        /\ Abs(Path(m)[i + 1][1] - Path(m)[i][1]) = 2
                        /\ Abs(Path(m)[i + 1][2] - Path(m)[i][2]) = 2
\* a piece of rank `piece`, of the side to move cp, standing on sq, can jump
\* to a square that is on the board, empty and not in `landed`, over an opponent
CanJump(b, cp, piece, sq, landed) ==
    \E dr \in RowDirs(piece), dc \in {1, 0 - 1} :
        LET land == <<sq[1] + 2 * dr, sq[2] + 2 * dc>>
            mid == <<sq[1] + dr, sq[2] + dc>>
        IN  /\ land \in Pos
            /\ land \notin landed
            /\ b[land] = 0
            /\ SideOf(b[mid]) = 0 - cp
\* some piece of the side to move has an admissible jump
CaptureAvailable(b, cp) ==
    \E p \in PiecesOf(b, cp) : CanJump(b, cp, b[p], p, {})
ValidMoves == get_valid_moves(board, current_player)
\* m is one of the moves get_valid_moves returns in this state
IsValidMove(m) ==
    LET valid == ValidMoves
    IN  \E i \in 1 .. Len(valid) : valid[i] = m
\* the squares jumped over by the two-square steps of a move
Midpoint(from, to) == <<(from[1] + to[1]) \div 2, (from[2] + to[2]) \div 2>>
Captured(m) ==
    {Midpoint(Path(m)[i], Path(m)[i + 1]) :
        i \in {j \in 1 .. Len(m[2]) : IsJumpStep(Path(m)[j], Path(m)[j + 1])}}
\* the row on which a man of this side is crowned
FarRow(piece) == IF SideOf(piece) = 1 THEN N - 1 ELSE 0
\* a piece of rank `piece` standing on sq has a free adjacent square ahead
CanStep(b, piece, sq) ==
    \E dr \in RowDirs(piece), dc \in {1, 0 - 1} :
        /\ <<sq[1] + dr, sq[2] + dc>> \in Pos
        /\ b[<<sq[1] + dr, sq[2] + dc>>] = 0
\* no piece of the side cp can step or jump
Stuck(b, cp) ==
    \A p \in PiecesOf(b, cp) : ~CanJump(b, cp, b[p], p, {}) /\ ~CanStep(b, b[p], p)
\* the empty squares one diagonal step away from sq in a direction open to
\* a piece of rank `piece`
StepTargets(b, piece, sq) ==
    {q \in {<<sq[1] + dr, sq[2] + dc>> : dr \in RowDirs(piece), dc \in {1, 0 - 1}} :
        q \in Pos /\ b[q] = 0}
\* one single-destination move for each piece of cp and each such square
SimpleMoves(b, cp) ==
    UNION {{<<p, <<q>> >> : q \in StepTargets(b, b[p], p)} : p \in PiecesOf(b, cp)}
\* what get_valid_moves returns on a new game
FirstMoves == get_valid_moves(_initialize_board, 1)

(***************************************************************************)
(* C1  Maximal capture chains: every capture chain get_valid_moves returns *)
(* ends on a square from which the moving piece, with the rank it had on   *)
(* its start square, has no further admissible jump.                       *)
(***************************************************************************)
C1_MaximalChains ==
    LET valid == ValidMoves
    IN  \A i \in 1 .. Len(valid) :
            IsCaptureMove(valid[i]) =>
                ~CanJump(board, current_player, board[valid[i][1]],
                         Last(valid[i][2]), Range(valid[i][2]))

(***************************************************************************)
(* C2  Mandatory capture: when some piece of the side to move has an       *)
(* admissible jump, every move get_valid_moves returns is a capture move.  *)
(***************************************************************************)
C2_MandatoryCapture ==
    CaptureAvailable(board, current_player) =>
        LET valid == ValidMoves
        IN  \A i \in 1 .. Len(valid) : IsCaptureMove(valid[i])

\* get_valid_moves has answered on a board where one piece of the side to
\* move can jump and another one of its pieces has a free adjacent square
C2_Witness ==
    /\ last_call.op = "get_valid_moves"
    /\ CaptureAvailable(board, current_player)
    /\ \E p \in PiecesOf(board, current_player) :
          /\ ~CanJump(board, current_player, board[p], p, {})
          /\ _get_normal_moves(board, p[1], p[2]) # <<>>
    /\ ret.val # <<>>

(***************************************************************************)
(* C3  make_move with a move that get_valid_moves does not offer raises    *)
(* IllegalMoveError and leaves board and current_player as they were.      *)
(***************************************************************************)
C3_IllegalMoveRejected ==
    [][(last_call'.op = "make_move" /\ ~IsValidMove(last_call'.args)) =>
          /\ ret'.kind = "raise"
          /\ ret'.val = "IllegalMoveError"
          /\ board' = board
          /\ current_player' = current_player]_vars

(***************************************************************************)
(* C4  get_state succeeds and returns a copy equal to the board.           *)
(***************************************************************************)
C4_SnapshotIsCopy ==
    last_call.op = "get_state" => (ret.kind = "return" /\ ret.val = board)

(***************************************************************************)
(* C5  Conservation: a move taken from get_valid_moves removes exactly as  *)
(* many pieces as it has jump steps, all of them the opponent's; the       *)
(* mover keeps its number of pieces, and every square other than the       *)
(* start, the destination and the jumped squares is left as it was.        *)
(***************************************************************************)
C5_Conservation ==
    [][(last_call'.op = "make_move" /\ IsValidMove(last_call'.args)) =>
          LET m == last_call'.args
              mover == current_player
          IN  /\ NumPieces(board') = NumPieces(board) - NumJumps(m)
              /\ Cardinality(PiecesOf(board', mover))
                     = Cardinality(PiecesOf(board, mover))
              /\ \A p \in Captured(m) :
                     SideOf(board[p]) = 0 - mover /\ board'[p] = 0
              /\ \A p \in Pos \ ({m[1], Last(m[2])} \cup Captured(m)) :
                     board'[p] = board[p]]_vars

\* a capture taken from get_valid_moves has just been applied in a position
\* where both sides still have a piece
C5_Witness ==
    /\ last_call.op = "make_move"
    /\ NumJumps(last_call.args) = 1
    /\ PiecesOf(board, current_player) # {}
    /\ PiecesOf(board, 0 - current_player) # {}

(***************************************************************************)
(* C6  Turn alternation: every make_move call passes the turn to the other *)
(* side, whatever the length of the move; and every move get_valid_moves   *)
(* returns starts on a square holding a piece of current_player.           *)
(***************************************************************************)
C6_TurnAlternation ==
    [][/\ last_call'.op = "make_move" => current_player' = 0 - current_player
       /\ LET valid == ValidMoves
          IN  \A i \in 1 .. Len(valid) :
                  SideOf(board[valid[i][1]]) = current_player]_vars

\* a two-jump chain has been applied, the turn is White's and White has moves
C6_Witness ==
    /\ last_call.op = "make_move"
    /\ Len(last_call.args[2]) = 2
    /\ current_player = 0 - 1
    /\ ValidMoves # <<>>

(***************************************************************************)
(* C7  Promotion: after make_move the moved piece stands on the final      *)
(* destination, and it is a king iff it was a king or it was a man whose   *)
(* final destination is on its far row (7 for Black, 0 for White); a man   *)
(* ending elsewhere stays a man, also when it passed over its far row.     *)
(***************************************************************************)
C7_Promotion ==
    [][(last_call'.op = "make_move" /\ board[last_call'.args[1]] # 0) =>
          LET piece == board[last_call'.args[1]]
              final == Last(last_call'.args[2])
          IN  /\ SideOf(board'[final]) = SideOf(piece)
              /\ IsKing(board'[final]) <=>
                     (IsKing(piece) \/ (IsMan(piece) /\ final[1] = FarRow(piece)))
              /\ (IsMan(piece) /\ final[1] # FarRow(piece)) =>
                     board'[final] = piece]_vars

\* a Black man has gone through row 7 in the middle of a chain and stands,
\* still a man, on another row
C7_Witness ==
    /\ last_call.op = "make_move"
    /\ Len(last_call.args[2]) = 2
    /\ last_call.args[2][1][1] = 7
    /\ Last(last_call.args[2])[1] # 7
    /\ board[Last(last_call.args[2])] = 1

(***************************************************************************)
(* C8  Terminal status: is_game_over answers true exactly when no piece of *)
(* current_player can step or jump (in particular when it has no piece),   *)
(* and get_winner then answers the side that is not current_player.        *)
(***************************************************************************)
C8_TerminalStatus ==
    /\ last_call.op = "is_game_over" =>
           /\ ret.val = Stuck(board, current_player)
           /\ ret.val = (ValidMoves = <<>>)
    /\ (last_call.op = "get_winner" /\ Stuck(board, current_player)) =>
           ret = Return(Some(0 - current_player))

\* get_winner has answered for a side that has pieces, none of which can move
C8_Witness ==
    /\ last_call.op = "get_winner"
    /\ PiecesOf(board, current_player) # {}
    /\ Stuck(board, current_player)
    /\ ret.val = Some(0 - current_player)

(***************************************************************************)
(* C9  While get_valid_moves is non-empty, get_winner returns None.        *)
(***************************************************************************)
C9_NoWinnerYet ==
    (last_call.op = "get_winner" /\ ValidMoves # <<>>) => ret = Return(None)

\* get_winner has answered None while both sides have pieces and the side to
\* move has a capture to make
C9_Witness ==
    /\ last_call.op = "get_winner"
    /\ ValidMoves # <<>>
    /\ PiecesOf(board, 0 - current_player) # {}
    /\ CaptureAvailable(board, current_player)
    /\ ret.val = None

(***************************************************************************)
(* C10  Dark squares: from a new game on, every square with row + col even *)
(* is empty.                                                               *)
(***************************************************************************)
C10_DarkSquares ==
    \A p \in Pos : (p[1] + p[2]) % 2 = 0 => board[p] = 0

\* a capture has been made in a game played from the initial position
C10_Witness ==
    /\ last_call.op = "make_move"
    /\ NumJumps(last_call.args) = 1
    /\ NumPieces(board) < 24

(***************************************************************************)
(* C11  Initial state: a new game has 12 Black men, one on each square of  *)
(* rows 0-2 with row + col odd, 12 White men, one on each such square of   *)
(* rows 5-7, nothing else on the board, and Black to move.                 *)
(***************************************************************************)
C11_InitialState ==
    ply = 0 =>
        /\ {p \in Pos : board[p] = 1}
               = {p \in Pos : p[1] <= 2 /\ (p[1] + p[2]) % 2 = 1}
        /\ {p \in Pos : board[p] = 3}
               = {p \in Pos : p[1] >= 5 /\ (p[1] + p[2]) % 2 = 1}
        /\ Cardinality({p \in Pos : board[p] = 1}) = 12
        /\ Cardinality({p \in Pos : board[p] = 3}) = 12
        /\ \A p \in Pos : board[p] \in {0, 1, 3}
        /\ current_player = 1

\* the state right after CheckersGame(): 24 pieces, no call made yet
C11_Witness ==
    /\ last_call.op = "__init__"
    /\ ply = 0
    /\ NumPieces(board) = 24
    /\ current_player = 1

(***************************************************************************)
(* C12  Isolation of instances: a call on one game leaves the board and    *)
(* the current_player of the other game untouched, so each game is in the  *)
(* state its own make_move calls alone produce.                            *)
(***************************************************************************)
C12_Isolation ==
    [][/\ other'.ply = other.ply => other' = other
       /\ ply' = ply => (board' = board /\ current_player' = current_player)
       /\ other'.ply # other.ply =>
              /\ last_call'.op = "b.make_move"
              /\ other'.board = make_move_board(other.board, last_call'.args[1],
                                                last_call'.args[2])
              /\ other'.current_player = 0 - other.current_player
       /\ ply' # ply =>
              /\ last_call'.op = "make_move"
              /\ board' = make_move_board(board, last_call'.args[1],
                                          last_call'.args[2])
              /\ current_player' = 0 - current_player]_vars

\* each game has had one move, the two boards differ, and "b" was moved last
C12_Witness ==
    /\ ply = 1
    /\ other.ply = 1
    /\ board # other.board
    /\ last_call.op = "b.make_move"

(***************************************************************************)
(* C13  Simple-move enumeration: when no piece of the side to move can     *)
(* jump, get_valid_moves returns exactly one single-destination move for   *)
(* each piece of that side and each adjacent diagonal square that is on    *)
(* the board, empty and in a direction open to the piece's rank, and       *)
(* nothing else.  On a new game these are 7 moves, each of a Black man of  *)
(* row 2 into row 3.                                                       *)
(***************************************************************************)
C13_SimpleMoves ==
    /\ ~CaptureAvailable(board, current_player) =>
           LET valid == ValidMoves
           IN  /\ Range(valid) = SimpleMoves(board, current_player)
               /\ Len(valid) = Cardinality(SimpleMoves(board, current_player))
    /\ Len(FirstMoves) = 7
    /\ \A i \in 1 .. Len(FirstMoves) :
           /\ FirstMoves[i][1][1] = 2
           /\ _initialize_board[FirstMoves[i][1]] = 1
           /\ Len(FirstMoves[i][2]) = 1
           /\ FirstMoves[i][2][1][1] = 3
           /\ Abs(FirstMoves[i][2][1][2] - FirstMoves[i][1][2]) = 1

\* get_valid_moves has answered with simple moves for a side that has a man
\* and a king, none of which can jump
C13_Witness ==
    /\ last_call.op = "get_valid_moves"
    /\ ~CaptureAvailable(board, current_player)
    /\ \E p, q \in PiecesOf(board, current_player) :
           IsMan(board[p]) /\ IsKing(board[q])
    /\ Len(ret.val) >= 5

(***************************************************************************)
(* C14  Capture admissibility: every step of every capture chain returned  *)
(* by get_valid_moves is a two-square diagonal jump in a row direction     *)
(* open to the rank of the moving piece, lands on a square that is on the  *)
(* board and empty, and passes over a piece of the opponent; no chain      *)
(* lands on the same square twice.                                         *)
(***************************************************************************)
C14_CaptureAdmissible ==
    LET valid == ValidMoves
    IN  \A i \in 1 .. Len(valid) :
            LET m == valid[i]
                path == Path(m)
                piece == board[m[1]]
            IN  IsJumpStep(path[1], path[2]) =>
                    /\ \A k \in 1 .. Len(m[2]) :
                           /\ path[k + 1][1] - path[k][1] \in {2 * dr : dr \in RowDirs(piece)}
                           /\ Abs(path[k + 1][2] - path[k][2]) = 2
                           /\ path[k + 1] \in Pos
                           /\ board[path[k + 1]] = 0
                           /\ SideOf(board[Midpoint(path[k], path[k + 1])]) = 0 - current_player
                    /\ \A j, k \in 1 .. Len(m[2]) : j # k => m[2][j] # m[2][k]

\* get_valid_moves has answered with a jump of a king towards its own side
\* and a jump of a man
C14_Witness ==
    /\ last_call.op = "get_valid_moves"
    /\ \E i, j \in 1 .. Len(ret.val) :
           /\ IsJumpStep(ret.val[i][1], ret.val[i][2][1])
           /\ IsKing(board[ret.val[i][1]])
           /\ (ret.val[i][2][1][1] - ret.val[i][1][1]) * current_player < 0
           /\ IsJumpStep(ret.val[j][1], ret.val[j][2][1])
           /\ IsMan(board[ret.val[j][1]])

(***************************************************************************)
(* C15  Queries are read-only: a call of get_valid_moves, is_game_over or  *)
(* get_winner leaves the board and current_player as they were, so the     *)
(* list get_valid_moves returns after the call, and the board a move from  *)
(* that list leads to, are the ones before the call.                       *)
(***************************************************************************)
C15_QueriesReadOnly ==
    [][last_call'.op \in {"get_valid_moves", "is_game_over", "get_winner"} =>
           /\ board' = board
           /\ current_player' = current_player
           /\ LET before == get_valid_moves(board, current_player)
                  after == get_valid_moves(board', current_player')
              IN  /\ after = before
                  /\ \A i \in 1 .. Len(before) :
                         make_move_board(board', before[i][1], before[i][2])
                             = make_move_board(board, before[i][1], before[i][2])]_vars

\* get_valid_moves has run its capture search in the course of a game and
\* found a jump
C15_Witness ==
    /\ last_call.op = "get_valid_moves"
    /\ ply >= 2
    /\ ret.val # <<>>
    /\ IsJumpStep(ret.val[1][1], ret.val[1][2][1])

(***************************************************************************)
(* C16  No out-of-range grid access: every square of the grid that one     *)
(* get_valid_moves call reads (scanned square, landing square, jumped      *)
(* square, adjacent square) has both coordinates in 0 .. 7, on any board;  *)
(* a candidate off the board is turned down by the bounds check before     *)
(* the grid is indexed with it.                                            *)
(***************************************************************************)
C16_ReadsInRange ==
    \A p \in GridReads(board, current_player) :
        p[1] \in 0 .. 7 /\ p[2] \in 0 .. 7

\* get_valid_moves has run for a side with a piece on the left edge, whose
\* step candidates have column -1, and a piece whose jump candidates have
\* column or row 8
C16_Witness ==
    /\ last_call.op = "get_valid_moves"
    /\ \E p, q \in PiecesOf(board, current_player) :
           /\ p[2] = 0
           /\ \E i \in 1 .. Len(CaptureDirections(board[q])) :
                  \/ q[1] + CaptureDirections(board[q])[i][1] >= N
                  \/ q[2] + CaptureDirections(board[q])[i][2] >= N
    /\ ret.val # <<>>

(***************************************************************************)
(* C17  No man on its far row: the board of a new game has no Black man on *)
(* row 7 and no White man on row 0, and a move taken from get_valid_moves  *)
(* leads from a board without such a man to a board without one.  A king   *)
(* never reverts to a man: after the move every king that was on the board *)
(* is the same king, on its square or, if it was the piece moved, on the   *)
(* final square, unless it was jumped, and neither side has more men than  *)
(* before.                                                                 *)
(***************************************************************************)
C17_NoManOnFarRow ==
    [][last_call'.op = "make_move" =>
           LET start == last_call'.args[1]
               final == Last(last_call'.args[2])
           IN  /\ NoManOnKingRow(_initialize_board)
               /\ NoManOnKingRow(board) => NoManOnKingRow(board')
               /\ \A p \in Pos :
                      IsKing(board[p]) =>
                          IF p = start THEN board'[final] = board[p]
                          ELSE board'[p] \in {board[p], 0}
               /\ \A man \in {1, 3} :
                      Cardinality({p \in Pos : board'[p] = man})
                          <= Cardinality({p \in Pos : board[p] = man})]_vars

\* make_move has taken a piece by one step onto the far row of its side,
\* where it stands as a king, next to another king on the board
C17_Witness ==
    /\ last_call.op = "make_move"
    /\ LET start == last_call.args[1]
           final == Last(last_call.args[2])
       IN  /\ final[1] = FarRow(board[final])
           /\ start[1] # final[1]
           /\ IsKing(board[final])
           /\ \E p \in Pos \ {final} : IsKing(board[p])

(***************************************************************************)
(* C18  A move taken from get_valid_moves never overwrites a piece: its    *)
(* final square is empty before the move, its start square is empty after  *)
(* it, the final square then holds a piece of the side that moved, and     *)
(* every square that held a piece before and is empty after is the start   *)
(* square or a square that was jumped; all other squares are untouched.    *)
(***************************************************************************)
C18_NoOverwrite ==
    [][last_call'.op = "make_move" =>
           LET m == last_call'.args
               start == m[1]
               final == Last(m[2])
           IN  /\ board[final] = 0
               /\ board'[start] = 0
               /\ SideOf(board'[final]) = current_player
               /\ SideOf(board'[final]) = SideOf(board[start])
               /\ \A p \in Pos :
                      board[p] # 0 /\ board'[p] = 0 =>
                          p = start \/ p \in Captured(m)
               /\ \A p \in Pos \ ({start, final} \cup Captured(m)) :
                      board'[p] = board[p]
               /\ NumPieces(board') = NumPieces(board) - Cardinality(Captured(m))]_vars

\* make_move has applied a jump next to pieces that stay on the board
C18_Witness ==
    /\ last_call.op = "make_move"
    /\ IsJumpStep(last_call.args[1], last_call.args[2][1])
    /\ board[last_call.args[1]] = 0
    /\ board[Last(last_call.args[2])] # 0
    /\ NumPieces(board) = 2

====
